---- MODULE Spec2Model ----
(***************************************************************************)
(* A model of qiime2.plugin.testing.TestPluginBase: the per-test fixture   *)
(* (setUp / test body / tearDown) and the helpers a test body calls.       *)
(*                                                                         *)
(* Conventions:                                                            *)
(*  - Python's None is the empty set, a value x that is present is {x}.    *)
(*  - a dotted name ('q2.sub.tests') and a relative file name ('d/b.txt')  *)
(*    are sequences of their segments; '' is the empty sequence.           *)
(*  - a class is named by a string; an instance is [type |-> class].       *)
(***************************************************************************)
EXTENDS Naturals, Sequences, FiniteSets

VARIABLES
    registry,   \* qiime2.sdk.PluginManager().plugins, in iteration order
    phase,      \* "idle" (between tests), "body", "finished" (tearDown due)
    package,    \* the running test class's `package` attribute
    plugin,     \* self.plugin of the current test instance
    temp_dir,   \* self.temp_dir of the current test instance (its name)
    tmpfs,      \* the temp directories that exist: name -> file names in it
    staged,     \* the file names handed to the copy loop so far in this test
    bodyOutcome,\* how the last test body ended
    last        \* the last operation: its arguments, outcome and effects

vars == <<registry, phase, package, plugin, temp_dir, tmpfs, staged,
          bodyOutcome, last>>

\* Bounds of the model.
MaxPlugins == 2
MaxFilenames == 2
MaxTempDirs == 2

None == {}
Some(x) == {x}
The(s) == CHOOSE x \in s : TRUE

SeqsUpTo(S, n) == UNION {[1..k -> S] : k \in 0..n}

----------------------------------------------------------------------------
\* The classes a test passes around, and the FormatBase hierarchy.

Classes == {"FmtA", "FmtB", "SubFmtB", "str", "PosixPath", "int"}

\* issubclass(c, d) for the classes above: SubFmtB derives from FmtB.
issubclass(c, d) == c = d \/ (c = "SubFmtB" /\ d = "FmtB")

\* issubclass(c, FormatBase)
IsFormat(c) == c \in {"FmtA", "FmtB", "SubFmtB"}

\* isinstance(obs, c)
isinstance(obs, c) == issubclass(obs.type, c)

\* type(pathlib.Path()): the concrete path class of the platform.
PathClass == "PosixPath"

----------------------------------------------------------------------------
\* The plugin registry (external, read-only here).

\* The `package` of a registered plugin: top-level or dotted.
PluginPackages == {<<"q2">>, <<"q2", "sub">>}

\* plugin.transformers of three plugins: (from, to) -> TransformerRecord.
TransformerTables ==
    << [k \in {<<"FmtA", "FmtB">>, <<"FmtB", "FmtA">>, <<"FmtA", "int">>} |->
          [transformer |-> IF k = <<"FmtA", "FmtB">> THEN "t1"
                           ELSE IF k = <<"FmtB", "FmtA">> THEN "t2" ELSE "t3"]],
       [k \in {<<"FmtA", "FmtB">>, <<"SubFmtB", "str">>} |->
          [transformer |-> IF k = <<"FmtA", "FmtB">> THEN "t2" ELSE "t1"]],
       [k \in {} |-> [transformer |-> "t1"]] >>

\* plugin.type_formats of three plugins: a list of TypeFormatRecord.
TypeFormatLists ==
    << << [type_expression |-> "S1", format |-> "FmtA"],
          [type_expression |-> "S1", format |-> "FmtB"],
          [type_expression |-> "S2", format |-> "FmtB"] >>,
       << [type_expression |-> "S2", format |-> "FmtA"] >>,
       << >> >>

\* A registry: the plugins' packages are free, the i-th registered plugin is
\* named i and carries one of the tables above, rotated by `v`.
Registry(pk, v) ==
    [i \in 1..Len(pk) |->
        LET c == ((i + v) % Len(TransformerTables)) + 1
        IN  [name |-> i, package |-> pk[i],
             transformers |-> TransformerTables[c],
             type_formats |-> TypeFormatLists[c]]]

Registries ==
    {Registry(pk, v) : pk \in SeqsUpTo(PluginPackages, MaxPlugins),
                       v \in 0..(Len(TransformerTables) - 1)}

\* The `package` attribute of a test class: None (the base class default)
\* or a dotted module name.
TestPackages ==
    {None, Some(<<"q2", "tests">>), Some(<<"q2", "sub", "tests">>),
     Some(<<"zz", "tests">>)}

----------------------------------------------------------------------------
\* Outcomes of an operation.

Returned == "returned"
AssertionError == "AssertionError"     \* self.fail / self.assert*
ValueError == "ValueError"

Msg(text, args) == [text |-> text, args |-> args]
NoMsg == Msg("", << >>)

----------------------------------------------------------------------------
\* setUp

\* Mutant of FindPlugin: the scan stops at the first match.
RECURSIVE FindPlugin_First(_, _, _)
FindPlugin_First(plugins, pkg, found) ==
    IF plugins = << >> THEN found
    ELSE IF Head(plugins).package = pkg THEN Some(Head(plugins))
    ELSE FindPlugin_First(Tail(plugins), pkg, found)

\* The scan of the registry: every plugin is visited, in order, and each
\* match overwrites the previous one.
RECURSIVE FindPlugin(_, _, _)
FindPlugin(plugins, pkg, found) ==
    IF plugins = << >> THEN found
    ELSE FindPlugin(Tail(plugins), pkg,
                    IF Head(plugins).package = pkg THEN Some(Head(plugins))
                    ELSE found)

\* tempfile.TemporaryDirectory(...): a new, empty directory under `name`.
MakeTempDir(fs, name) ==
    [d \in (DOMAIN fs) \cup {name} |-> IF d = name THEN {} ELSE fs[d]]

\* Mutant of splitPackage: the AttributeError is not caught.
splitPackage_NoExcept(pkg) ==
    IF pkg = None
    THEN [outcome |-> "AttributeError",
          msg |-> Msg("'NoneType' object has no attribute 'split'", << >>),
          package |-> << >>]
    ELSE [outcome |-> Returned, msg |-> NoMsg, package |-> <<Head(The(pkg))>>]

\* The try block of setUp: self.package.split('.')[0], a package name of one
\* segment; None has no split, and the AttributeError is turned into a
\* failure of the test.
splitPackage(pkg) ==
    IF pkg = None
    THEN [outcome |-> AssertionError,
          msg |-> Msg("Test class must have a package property.", << >>),
          package |-> << >>]
    ELSE [outcome |-> Returned, msg |-> NoMsg, package |-> <<Head(The(pkg))>>]

\* Mutant of setUp: the temp directory is made first, before the package
\* check and the plugin lookup.
setUp_TempDirFirst(pkg, reg, fs, name) ==
    LET sp == splitPackage(pkg)
        found == FindPlugin(reg, sp.package, None)
    IN  IF sp.outcome # Returned
        THEN [outcome |-> sp.outcome, msg |-> sp.msg,
              plugin |-> None, temp_dir |-> Some(name),
              tmpfs |-> MakeTempDir(fs, name), scanned |-> FALSE]
        ELSE IF found # None
        THEN [outcome |-> Returned, msg |-> NoMsg,
              plugin |-> found, temp_dir |-> Some(name),
              tmpfs |-> MakeTempDir(fs, name), scanned |-> TRUE]
        ELSE [outcome |-> AssertionError,
              msg |-> Msg("%s is not a registered QIIME 2 plugin.", sp.package),
              plugin |-> None, temp_dir |-> Some(name),
              tmpfs |-> MakeTempDir(fs, name), scanned |-> TRUE]

\* setUp on a fresh test instance whose class has package `pkg`; `name` is
\* the name tempfile would pick next.
setUp(pkg, reg, fs, name) ==
    LET sp == splitPackage(pkg)
    IN  IF sp.outcome # Returned
        THEN [outcome |-> sp.outcome, msg |-> sp.msg,
              plugin |-> None, temp_dir |-> None, tmpfs |-> fs,
              scanned |-> FALSE]
        ELSE LET found == FindPlugin(reg, sp.package, None)
             IN  IF found # None
                 THEN [outcome |-> Returned, msg |-> NoMsg,
                       plugin |-> found, temp_dir |-> Some(name),
                       tmpfs |-> MakeTempDir(fs, name), scanned |-> TRUE]
                 ELSE [outcome |-> AssertionError,
                       msg |-> Msg("%s is not a registered QIIME 2 plugin.",
                                   sp.package),
                       plugin |-> None, temp_dir |-> None, tmpfs |-> fs,
                       scanned |-> TRUE]

\* Mutant of cleanup: the directory is emptied but not removed.
cleanup_KeepsDir(fs, dir) == [d \in DOMAIN fs |-> IF d \in dir THEN {} ELSE fs[d]]

\* self.temp_dir.cleanup(): the directory and everything in it is removed.
cleanup(fs, dir) == [d \in (DOMAIN fs) \ dir |-> fs[d]]

----------------------------------------------------------------------------
\* The helpers a test body calls.

\* pkg_resources.resource_filename(self.package, 'data/%s' % filename)
get_data_path(pkg, filename) ==
    [kind |-> "data", package |-> The(pkg), rel |-> <<"data">> \o filename,
     dir |-> None]

\* self.temp_dir.name
TempPath(tmp) == [kind |-> "tmp", package |-> << >>, rel |-> << >>, dir |-> tmp]

\* os.path.basename of a path
basename(path) == <<path.rel[Len(path.rel)]>>

\* Mutant of get_transformer: a pair registered the other way round is
\* found too.
get_transformer_EitherWay(plug, from_type, to_type) ==
    IF <<from_type, to_type>> \in DOMAIN plug.transformers
    THEN [outcome |-> Returned, msg |-> NoMsg,
          ret |-> Some(plug.transformers[<<from_type, to_type>>].transformer)]
    ELSE IF <<to_type, from_type>> \in DOMAIN plug.transformers
    THEN [outcome |-> Returned, msg |-> NoMsg,
          ret |-> Some(plug.transformers[<<to_type, from_type>>].transformer)]
    ELSE [outcome |-> AssertionError,
          msg |-> Msg("Could not find registered transformer from %r to %r.",
                      <<from_type, to_type>>),
          ret |-> None]

\* get_transformer: the lookup in self.plugin.transformers, a KeyError
\* turned into a failure of the test.
get_transformer(plug, from_type, to_type) ==
    IF <<from_type, to_type>> \in DOMAIN plug.transformers
    THEN [outcome |-> Returned, msg |-> NoMsg,
          ret |-> Some(plug.transformers[<<from_type, to_type>>].transformer)]
    ELSE [outcome |-> AssertionError,
          msg |-> Msg("Could not find registered transformer from %r to %r.",
                      <<from_type, to_type>>),
          ret |-> None]

\* Mutant of FindFormat: the loop has no break, the last match wins.
RECURSIVE FindFormat_Last(_, _)
FindFormat_Last(type_formats, semantic_type) ==
    IF type_formats = << >> THEN None
    ELSE LET rest == FindFormat_Last(Tail(type_formats), semantic_type)
         IN  IF rest # None THEN rest
             ELSE IF Head(type_formats).type_expression = semantic_type
                  THEN Some(Head(type_formats).format)
                  ELSE None

\* The loop of assertSemanticTypeRegisteredToFormat: the format of the first
\* record whose type expression equals semantic_type, None without one.
RECURSIVE FindFormat(_, _)
FindFormat(type_formats, semantic_type) ==
    IF type_formats = << >> THEN None
    ELSE IF Head(type_formats).type_expression = semantic_type
         THEN Some(Head(type_formats).format)
         ELSE FindFormat(Tail(type_formats), semantic_type)

\* assertSemanticTypeRegisteredToFormat; exp_format is None or Some(class).
assertSemanticTypeRegisteredToFormat(plug, semantic_type, exp_format) ==
    LET obs_format == FindFormat(plug.type_formats, semantic_type)
    IN  IF obs_format = None
        THEN [outcome |-> AssertionError,
              msg |-> Msg("Semantic type %r is not registered to a format.",
                          <<semantic_type>>)]
        ELSE IF obs_format # exp_format
        THEN [outcome |-> AssertionError,
              msg |-> Msg("Expected semantic type %r to be registered to format %r, not %r.",
                          <<Some(semantic_type), exp_format, obs_format>>)]
        ELSE [outcome |-> Returned, msg |-> NoMsg]

----------------------------------------------------------------------------
\* transform_format

\* The bundled data files a test names, relative to the package's data/.
FileNames == {<<"a.txt">>, <<"d", "b.txt">>}

\* The values of the `filename` argument: None, '' or a file name.
FilenameArgs == {None, Some(<< >>)} \cup {Some(f) : f \in FileNames}

\* The values of the `filenames` argument: None or a list of file names.
FilenamesArgs == {None} \cup {Some(l) : l \in SeqsUpTo(FileNames, MaxFilenames)}

\* Python truth of an optional string or list: None, '' and [] are false.
truthy(x) == x # None /\ The(x) # << >>

\* Mutant of notFormatSource: the guard is missing.
notFormatSource_Missing(source_format) == source_format \notin Classes

\* not issubclass(source_format, FormatBase)
notFormatSource(source_format) == ~IsFormat(source_format)

\* Mutant of bothFilenames: the arguments are tested for truth, not for None.
bothFilenames_Truthy(filename, filenames) ==
    filename # None /\ The(filename) # << >>
        /\ filenames # None /\ The(filenames) # << >>

\* filename is not None and filenames is not None
bothFilenames(filename, filenames) == filename # None /\ filenames # None

\* Mutant of copy: the file replaces what the directory held.
copy_Overwrite(fs, dir, filepath) ==
    [fs EXCEPT ![dir] = {basename(filepath)}]

\* shutil.copy(filepath, source_path): the file lands in the directory under
\* its base name.
copy(fs, dir, filepath) ==
    [fs EXCEPT ![dir] = @ \cup {basename(filepath)}]

\* for filename in filenames: copy the data file into the temp directory.
RECURSIVE copyAll(_, _, _, _)
copyAll(fs, dir, pkg, names) ==
    IF names = << >> THEN fs
    ELSE copyAll(copy(fs, dir, get_data_path(pkg, Head(names))), dir, pkg,
                 Tail(names))

\* "Handle format initialization": the source path and the staging.
stage(pkg, tmp, fs, filename, filenames) ==
    IF truthy(filename)
    THEN [source_path |-> Some(get_data_path(pkg, The(filename))),
          tmpfs |-> fs,
          resolved |-> {get_data_path(pkg, The(filename))}]
    ELSE IF truthy(filenames)
    THEN [source_path |-> Some(TempPath(tmp)),
          tmpfs |-> copyAll(fs, The(tmp), pkg, The(filenames)),
          resolved |-> {get_data_path(pkg, The(filenames)[i]) :
                            i \in 1..Len(The(filenames))}]
    ELSE [source_path |-> None, tmpfs |-> fs, resolved |-> {}]

\* Mutant of resultAccepted: only instances of the target are let through.
resultAccepted_InstanceOnly(target, obs) == isinstance(obs, target)

\* The final assertIsInstance on the transformer's result.
resultAccepted(target, obs) ==
    IF IsFormat(target)
    THEN isinstance(obs, PathClass) \/ isinstance(obs, "str")
            \/ isinstance(obs, target)
    ELSE isinstance(obs, target)

\* What a transform_format call did besides returning or raising.
NoEffects(fs) ==
    [tmpfs |-> fs, resolved |-> {}, input |-> None, lookedUp |-> FALSE,
     invoked |-> None, obs |-> None]

\* transform_format; obsType is the class of the value the transformer
\* returns if it is invoked.
transform_format(pkg, plug, tmp, fs, source_format, target, filename, filenames, obsType) ==
    IF notFormatSource(source_format)
    THEN [outcome |-> ValueError,
          msg |-> Msg("source_format must be a subclass of FormatBase.", << >>),
          ret |-> None, fx |-> NoEffects(fs)]
    ELSE IF bothFilenames(filename, filenames)
    THEN [outcome |-> ValueError,
          msg |-> Msg("Cannot use both filename and filenames at the same time.", << >>),
          ret |-> None, fx |-> NoEffects(fs)]
    ELSE
    LET st == stage(pkg, tmp, fs, filename, filenames)
        input == [type |-> source_format, path |-> st.source_path, mode |-> "r"]
        tr == get_transformer(plug, source_format, target)
        obs == [type |-> obsType]
        done == [tmpfs |-> st.tmpfs, resolved |-> st.resolved,
                 input |-> Some(input), lookedUp |-> TRUE,
                 invoked |-> tr.ret, obs |-> Some(obs)]
    IN  IF tr.outcome # Returned
        THEN [outcome |-> tr.outcome, msg |-> tr.msg, ret |-> None,
              fx |-> [done EXCEPT !.obs = None]]
        ELSE IF ~resultAccepted(target, obs)
        THEN [outcome |-> AssertionError,
              msg |-> Msg("%s is not an instance of %r", <<obsType, target>>),
              ret |-> None, fx |-> done]
        ELSE [outcome |-> Returned, msg |-> NoMsg,
              ret |-> Some(<<input, obs>>), fx |-> done]

----------------------------------------------------------------------------
\* The state machine: the test runner drives setUp, the body and tearDown of
\* one test after another; a body is any sequence of helper calls.  After a
\* helper call the body is at "called": it goes on (having caught what the
\* helper raised, if it raised) or ends.

\* The names tempfile can give a directory.
TempNames == 1..MaxTempDirs

\* tempfile picks a name no existing directory has (here: the least one).
FreshName(fs) ==
    CHOOSE n \in TempNames \ DOMAIN fs :
        \A m \in TempNames \ DOMAIN fs : n <= m

SemanticTypes == {"S1", "S2", "S3"}
ExpFormats == {None, Some("FmtA"), Some("FmtB")}
LookupClasses == {"FmtA", "FmtB", "SubFmtB", "int", "str"}
SourceClasses == {"FmtA", "SubFmtB", "int"}
TargetClasses == {"FmtB", "int", "str"}

NoArgs == [none |-> TRUE]
NoCall == [op |-> "none", args |-> NoArgs, outcome |-> Returned,
           msg |-> NoMsg, ret |-> None, fx |-> NoArgs]

Init ==
    /\ registry \in Registries
    /\ phase = "idle"
    /\ package = None
    /\ plugin = None
    /\ temp_dir = None
    /\ tmpfs = << >>
    /\ staged = {}
    /\ bodyOutcome = "none"
    /\ last = NoCall

\* The runner makes a fresh instance of a test class and calls setUp; when
\* setUp fails, neither the body nor tearDown is run.
SetUp ==
    /\ phase = "idle"
    /\ TempNames \ DOMAIN tmpfs # {}
    /\ \E pkg \in TestPackages :
         LET r == setUp(pkg, registry, tmpfs, FreshName(tmpfs))
         IN  /\ package' = pkg
             /\ plugin' = r.plugin
             /\ temp_dir' = r.temp_dir
             /\ tmpfs' = r.tmpfs
             /\ phase' = IF r.outcome = Returned THEN "body" ELSE "idle"
             /\ last' = [op |-> "setUp", args |-> [package |-> pkg],
                         outcome |-> r.outcome, msg |-> r.msg, ret |-> None,
                         fx |-> [scanned |-> r.scanned]]
    /\ staged' = {}
    /\ bodyOutcome' = "none"
    /\ UNCHANGED registry

GetTransformer ==
    /\ phase = "body"
    /\ \E from_type \in LookupClasses, to_type \in LookupClasses :
         LET r == get_transformer(The(plugin), from_type, to_type)
         IN  last' = [op |-> "get_transformer",
                      args |-> [from_type |-> from_type, to_type |-> to_type],
                      outcome |-> r.outcome, msg |-> r.msg, ret |-> r.ret,
                      fx |-> NoArgs]
    /\ phase' = "called"
    /\ UNCHANGED <<registry, package, plugin, temp_dir, tmpfs, staged,
                   bodyOutcome>>

AssertSemanticTypeRegisteredToFormat ==
    /\ phase = "body"
    /\ \E semantic_type \in SemanticTypes, exp_format \in ExpFormats :
         LET r == assertSemanticTypeRegisteredToFormat(
                      The(plugin), semantic_type, exp_format)
         IN  last' = [op |-> "assertSemanticTypeRegisteredToFormat",
                      args |-> [semantic_type |-> semantic_type,
                                exp_format |-> exp_format],
                      outcome |-> r.outcome, msg |-> r.msg, ret |-> None,
                      fx |-> NoArgs]
    /\ phase' = "called"
    /\ UNCHANGED <<registry, package, plugin, temp_dir, tmpfs, staged,
                   bodyOutcome>>

\* The file names a transform_format call handed to its copy loop: those of
\* `filenames`, when the call got as far as making the source format and
\* was given no `filename`.
Listed(r, filename, filenames) ==
    IF r.fx.input # None /\ filename = None /\ filenames # None
    THEN {The(filenames)[i] : i \in 1..Len(The(filenames))}
    ELSE {}

TransformFormat ==
    /\ phase = "body"
    /\ \E source_format \in SourceClasses, target \in TargetClasses,
          filename \in FilenameArgs, filenames \in FilenamesArgs,
          obsType \in Classes :
         LET r == transform_format(package, The(plugin), temp_dir, tmpfs,
                                   source_format, target, filename, filenames,
                                   obsType)
         IN  /\ tmpfs' = r.fx.tmpfs
             /\ staged' = staged \cup Listed(r, filename, filenames)
             /\ last' = [op |-> "transform_format",
                         args |-> [source_format |-> source_format,
                                   target |-> target, filename |-> filename,
                                   filenames |-> filenames,
                                   before |-> tmpfs],
                         outcome |-> r.outcome, msg |-> r.msg, ret |-> r.ret,
                         fx |-> [resolved |-> r.fx.resolved,
                                 input |-> r.fx.input,
                                 lookedUp |-> r.fx.lookedUp,
                                 invoked |-> r.fx.invoked,
                                 obs |-> r.fx.obs]]
    /\ phase' = "called"
    /\ UNCHANGED <<registry, package, plugin, temp_dir, bodyOutcome>>

\* The body goes on after a helper call.
Continue ==
    /\ phase = "called"
    /\ phase' = "body"
    /\ last' = NoCall
    /\ UNCHANGED <<registry, package, plugin, temp_dir, tmpfs, staged,
                   bodyOutcome>>

\* The body ends: it passed, failed an assertion or raised an error.  What
\* a helper raised and the body did not catch ends the body.
EndBody ==
    /\ phase \in {"body", "called"}
    /\ \E o \in {"passed", "failed", "errored"} :
         /\ (phase = "called" /\ last.outcome = AssertionError) => o = "failed"
         /\ (phase = "called" /\ last.outcome = ValueError) => o = "errored"
         /\ bodyOutcome' = o
    /\ phase' = "finished"
    /\ UNCHANGED <<registry, package, plugin, temp_dir, tmpfs, staged, last>>

\* The runner calls tearDown after every body, whatever its outcome.
TearDown ==
    /\ phase = "finished"
    /\ tmpfs' = cleanup(tmpfs, temp_dir)
    /\ phase' = "idle"
    /\ last' = [op |-> "tearDown", args |-> NoArgs, outcome |-> Returned,
                msg |-> NoMsg, ret |-> None,
                fx |-> [removed |-> tmpfs[The(temp_dir)]]]
    /\ UNCHANGED <<registry, package, plugin, temp_dir, staged, bodyOutcome>>

Next ==
    \/ SetUp
    \/ GetTransformer
    \/ AssertSemanticTypeRegisteredToFormat
    \/ TransformFormat
    \/ Continue
    \/ EndBody
    \/ TearDown

Spec == Init /\ [][Next]_vars

----------------------------------------------------------------------------
\* Properties.

IsTransform == last.op = "transform_format"

\* A transform_format call that passed both usage guards.
PastGuards ==
    /\ IsTransform
    /\ IsFormat(last.args.source_format)
    /\ ~(last.args.filename # None /\ last.args.filenames # None)

\* A transform_format call that did nothing but raise.
NoTransformEffects ==
    /\ last.fx.resolved = {}
    /\ last.fx.input = None
    /\ last.fx.lookedUp = FALSE
    /\ last.fx.invoked = None
    /\ last.fx.obs = None
    /\ last.ret = None
    /\ tmpfs = last.args.before

\* C1: once tearDown has run, the temp directory setUp created, with all
\* that was staged in it, no longer exists, however the body ended.
C1_TearDownRemovesTempDir ==
    last.op = "tearDown" =>
        /\ temp_dir # None
        /\ The(temp_dir) \notin DOMAIN tmpfs

\* C1 witness: a body that staged files and raised has been torn down.
C1_Witness ==
    /\ last.op = "tearDown"
    /\ bodyOutcome = "errored"
    /\ last.fx.removed # {}

IsPrefix(p, q) == Len(p) <= Len(q) /\ \A i \in 1..Len(p) : p[i] = q[i]

\* The places in the registry of the plugins whose package is `pkg`.
Matches(pkg) == {i \in DOMAIN registry : registry[i].package = pkg}

\* C2 as stated: whenever some registered plugin's package is a prefix of
\* the test class's package, setUp binds a plugin whose package is such a
\* prefix, whatever the registry holds.
C2_AsStated ==
    (/\ last.op = "setUp"
     /\ package # None
     /\ \E i \in DOMAIN registry : IsPrefix(registry[i].package, The(package)))
    => /\ last.outcome = Returned
       /\ plugin # None
       /\ IsPrefix(The(plugin).package, The(package))

\* C2 amended: setUp binds the last plugin, in registry order, whose package
\* equals the top-level segment of the test class's package, and fails the
\* test when no plugin's package equals that segment (a plugin whose package
\* is a dotted name is never matched).
C2_BindsLastTopLevelMatch ==
    (last.op = "setUp" /\ package # None) =>
        LET m == Matches(<<Head(The(package))>>)
        IN  IF m # {}
            THEN /\ last.outcome = Returned
                 /\ plugin = Some(registry[CHOOSE i \in m : \A j \in m : j <= i])
            ELSE /\ last.outcome = AssertionError
                 /\ last.msg = Msg("%s is not a registered QIIME 2 plugin.",
                                   <<Head(The(package))>>)
                 /\ plugin = None

\* C2 witness: setUp has bound a plugin out of two that share the package.
C2_Witness ==
    /\ last.op = "setUp"
    /\ last.outcome = Returned
    /\ Cardinality(Matches(<<Head(The(package))>>)) > 1

\* C3: with package left None, setUp fails the test with the message about
\* the package property, and the registry has not been scanned.
C3_MissingPackageFails ==
    (last.op = "setUp" /\ last.args.package = None) =>
        /\ last.outcome = AssertionError
        /\ last.msg = Msg("Test class must have a package property.", << >>)
        /\ last.fx.scanned = FALSE
        /\ plugin = None

\* C3 witness: setUp ran on a class without package, plugins being registered.
C3_Witness ==
    /\ last.op = "setUp"
    /\ last.args.package = None
    /\ Len(registry) > 0

\* C4: get_transformer returns the transformer registered on the bound
\* plugin for exactly the pair asked for, and for a pair that is not
\* registered it fails the test with a message naming both types.
C4_GetTransformerExact ==
    last.op = "get_transformer" =>
        LET k == <<last.args.from_type, last.args.to_type>>
            t == The(plugin).transformers
        IN  IF k \in DOMAIN t
            THEN /\ last.outcome = Returned
                 /\ last.ret = Some(t[k].transformer)
            ELSE /\ last.outcome = AssertionError
                 /\ last.msg.args = k
                 /\ last.ret = None

\* C4 witness: a pair was asked for that is registered only the other way
\* round.
C4_Witness ==
    /\ last.op = "get_transformer"
    /\ <<last.args.from_type, last.args.to_type>>
           \notin DOMAIN The(plugin).transformers
    /\ <<last.args.to_type, last.args.from_type>>
           \in DOMAIN The(plugin).transformers

\* C5: with filename and filenames both given, transform_format raises a
\* ValueError and has done nothing else: no path resolved, no file copied,
\* no source format made, no transformer looked up or invoked.
C5_BothFilenamesRaises ==
    (/\ IsTransform
     /\ last.args.filename # None
     /\ last.args.filenames # None)
    => /\ last.outcome = ValueError
       /\ NoTransformEffects

\* C5 witness: both given, for a source and target with a registered
\* transformer and a list that names files.
C5_Witness ==
    /\ IsTransform
    /\ last.args.filename # None
    /\ truthy(last.args.filenames)
    /\ <<last.args.source_format, last.args.target>>
           \in DOMAIN The(plugin).transformers

\* C6: with a source that is no subclass of FormatBase, transform_format
\* raises the ValueError about source_format and has done nothing else,
\* whatever the filename arguments are.
C6_NonFormatSourceRaises ==
    (IsTransform /\ ~IsFormat(last.args.source_format)) =>
        /\ last.outcome = ValueError
        /\ last.msg = Msg("source_format must be a subclass of FormatBase.",
                          << >>)
        /\ NoTransformEffects

\* C6 witness: a non-format source given with a list of files to stage.
C6_Witness ==
    /\ IsTransform
    /\ ~IsFormat(last.args.source_format)
    /\ last.args.filename = None
    /\ truthy(last.args.filenames)

\* The results the final assertion lets through.
Acceptable(target, obs) ==
    IF IsFormat(target)
    THEN obs.type \in {PathClass, "str"} \/ issubclass(obs.type, target)
    ELSE issubclass(obs.type, target)

\* C7: a call past the usage guards returns (source format instance,
\* result) exactly when a transformer is registered for (source, target)
\* and its result is acceptable; it fails the test otherwise, and without a
\* registration no transformer is invoked.
C7_ReturnsIffAcceptable ==
    PastGuards =>
        LET k == <<last.args.source_format, last.args.target>>
            t == The(plugin).transformers
        IN  IF k \notin DOMAIN t
            THEN /\ last.outcome = AssertionError
                 /\ last.fx.invoked = None
                 /\ last.ret = None
            ELSE /\ last.fx.invoked = Some(t[k].transformer)
                 /\ last.fx.obs # None
                 /\ IF Acceptable(last.args.target, The(last.fx.obs))
                    THEN /\ last.outcome = Returned
                         /\ last.ret = Some(<<The(last.fx.input),
                                              The(last.fx.obs)>>)
                    ELSE /\ last.outcome = AssertionError
                         /\ last.ret = None

\* C7 witness: a string came back for a format target and was returned.
C7_Witness ==
    /\ PastGuards
    /\ last.outcome = Returned
    /\ IsFormat(last.args.target)
    /\ The(last.fx.obs).type = "str"

\* The places in the bound plugin's type_formats whose type expression is
\* the one asked for.
TypeMatches ==
    {i \in DOMAIN The(plugin).type_formats :
        The(plugin).type_formats[i].type_expression
            = last.args.semantic_type}

\* C8: the assertion passes exactly when the first matching record's format
\* is the expected one; it fails as "not registered" without a matching
\* record and with the mismatch message naming that first record's format
\* otherwise.
C8_FirstRecordDecides ==
    last.op = "assertSemanticTypeRegisteredToFormat" =>
        IF TypeMatches = {}
        THEN /\ last.outcome = AssertionError
             /\ last.msg = Msg("Semantic type %r is not registered to a format.",
                               <<last.args.semantic_type>>)
        ELSE LET first == CHOOSE i \in TypeMatches :
                              \A j \in TypeMatches : i <= j
                 f == The(plugin).type_formats[first].format
             IN  IF last.args.exp_format = Some(f)
                 THEN last.outcome = Returned
                 ELSE /\ last.outcome = AssertionError
                      /\ last.msg.args = <<Some(last.args.semantic_type),
                                           last.args.exp_format, Some(f)>>

\* C8 witness: the expected format is that of a later matching record only,
\* and the assertion failed.
C8_Witness ==
    /\ last.op = "assertSemanticTypeRegisteredToFormat"
    /\ last.outcome = AssertionError
    /\ \E i \in TypeMatches :
          Some(The(plugin).type_formats[i].format) = last.args.exp_format

\* The base names of a set of file names.
BaseNames(names) == {<<n[Len(n)]>> : n \in names}

\* C9: past the guards, a non-empty filenames list (no filename) adds every
\* named file to the temp directory, under its base name, and the source
\* format is made in read mode on the temp directory, even when the lookup
\* then fails; a single filename makes it on that file's data path and
\* leaves the temp directory alone; and within a test the temp directory
\* holds exactly the files listed so far.
C9_Staging ==
    /\ (PastGuards /\ last.args.filename = None /\ truthy(last.args.filenames))
       => LET l == The(last.args.filenames)
              d == The(temp_dir)
          IN  /\ tmpfs[d] = last.args.before[d]
                              \cup BaseNames({l[i] : i \in 1..Len(l)})
              /\ The(last.fx.input).path
                     = Some([kind |-> "tmp", package |-> << >>,
                             rel |-> << >>, dir |-> temp_dir])
              /\ The(last.fx.input).mode = "r"
    /\ (PastGuards /\ truthy(last.args.filename))
       => /\ tmpfs = last.args.before
          /\ The(last.fx.input).path
                 = Some([kind |-> "data", package |-> The(package),
                         rel |-> <<"data">> \o The(last.args.filename),
                         dir |-> None])
          /\ The(last.fx.input).mode = "r"
    /\ (phase \in {"body", "called", "finished"})
       => tmpfs[The(temp_dir)] = BaseNames(staged)

\* C9 witness: a second staging call added to what the first had staged,
\* and its lookup failed.
C9_Witness ==
    /\ PastGuards
    /\ last.args.filename = None
    /\ truthy(last.args.filenames)
    /\ last.outcome = AssertionError
    /\ last.fx.invoked = None
    /\ last.args.before[The(temp_dir)] # {}
    /\ tmpfs[The(temp_dir)] # last.args.before[The(temp_dir)]

\* C10: at most one temp directory exists at any time and none between
\* tests; a setUp that failed has made no temp directory and bound no
\* plugin; during a test the only directory is the test's own.
C10_NoTempDirOutlivesItsTest ==
    /\ Cardinality(DOMAIN tmpfs) <= 1
    /\ phase = "idle" => DOMAIN tmpfs = {}
    /\ phase # "idle" => DOMAIN tmpfs = temp_dir
    /\ (last.op = "setUp" /\ last.outcome # Returned)
       => /\ phase = "idle"
          /\ plugin = None
          /\ temp_dir = None

\* C10 witness: setUp failed on a package no plugin is registered for, after
\* scanning a registry that holds plugins.
C10_Witness ==
    /\ last.op = "setUp"
    /\ last.outcome = AssertionError
    /\ last.fx.scanned
    /\ Len(registry) > 0

====
